---- MODULE Spec2Model ----
(***************************************************************************)
(* Model of the reverse-tunnel relay (examples/proxy_server.cpp) and of    *)
(* the polling agent (src/mcp_reverse_client.cpp).                         *)
(*                                                                         *)
(* Every relay handler runs on its own connection thread.  A handler is    *)
(* split into one action per critical section (a lock_guard scope) plus    *)
(* the thread-local code around it; the blocking calls (sleep_for,         *)
(* wait_for) are positions of the thread that only the passing of time     *)
(* (Tick) or another thread ends.                                          *)
(*                                                                         *)
(* Time is counted in ticks of one sleep_for period of the poll loop.      *)
(* last_activity / timestamp are written and never read by the code; they *)
(* are left out of the state.                                              *)
(***************************************************************************)
EXTENDS Naturals, Integers, Sequences, FiniteSets, TLC

\* ---------------------------------------------------------------- bounds
NMsg == 2            \* message calls (one pending_request each)
NPoll == 2           \* connections that issue poll calls
NResp == 2           \* connections that issue response calls
NSessionIds == 2     \* values generate_id can return for a session
NRequestIds == 2     \* values generate_id can return for a request
MaxSessions == 2     \* server_session objects ever created
PollWindow == 1      \* poll's 30 s window, in ticks
MsgWindow == 2       \* message's 60 s wait, in ticks
RetryDelay == 1      \* the agent's 5 s retry delay, in ticks

Msgs == 1..NMsg
Polls == 1..NPoll
Resps == 1..NResp
SessionIds == 1..NSessionIds
RequestIds == 1..NRequestIds
\* the body of message call m and the payload of response call r: every call
\* carries a payload of its own
BodyOf(m) == <<"rpc", m>>
PayloadOf(r) == <<"response", r>>
Malformed == "malformed"
MissingField == "missing_field"
None == 0
NoPayload == <<>>
NoValue == [set |-> FALSE, value |-> NoPayload]

VARIABLES
    sessions,          \* std::map session_id -> server_session (heap index, None = absent)
    heap,              \* the server_session objects, in order of creation
    reg,               \* result of the last /register call
    msg,               \* /message handler threads and their pending_request
    response_promise,  \* pending_request::response_promise, per request
    poll,              \* /poll handler threads
    resp,              \* /response handler threads
    agent,             \* the reverse_client
    set_calls,         \* history: set_value calls made on each promise
    returned,          \* history: poll calls that returned each request
    mutex              \* owner of sessions_mutex and of each server_session::mutex

vars == <<sessions, heap, reg, msg, response_promise, poll, resp, agent, set_calls,
          returned, mutex>>

\* ---------------------------------------------------------- data model
\* lock 0 is sessions_mutex, lock s is the mutex of session object s; a lock
\* is free or owned by a handler thread <<kind, number>>
Locks == 0..MaxSessions
Free == <<>>

\* struct server_session
NewSession(id) ==
    [session_id |-> id,
     pending_requests |-> <<>>,
     in_flight_requests |-> [k \in RequestIds |-> None]]

\* generate_id(): 16 random hex digits; any value, also one already in use
generate_id(S) == S

Registered == {id \in SessionIds : sessions[id] # None}

\* sessions.begin(): std::map iterates in key order
FirstSession ==
    sessions[CHOOSE id \in Registered : \A other \in Registered : id <= other]

\* history: the number of requests ever pushed on session object s
Pushed(s) == Cardinality({m \in Msgs : msg[m].session = s /\ msg[m].request_id # None})

\* request m is in the queue of a session object
InQueue(m) ==
    \E s \in 1..Len(heap) : \E i \in 1..Len(heap[s].pending_requests) :
        heap[s].pending_requests[i] = m

\* Promote taking the request at the back of the queue (a stack, not a queue)
Promote_back(h, s) ==
    LET n == Len(h[s].pending_requests)
        m == h[s].pending_requests[n]
    IN [h EXCEPT ![s].pending_requests = SubSeq(@, 1, n - 1),
                 ![s].in_flight_requests[msg[m].request_id] = m]

\* pending_requests.front(); pop(); in_flight_requests[request_id] = request
Promote(h, s) ==
    LET m == Head(h[s].pending_requests)
    IN [h EXCEPT ![s].pending_requests = Tail(@),
                 ![s].in_flight_requests[msg[m].request_id] = m]

\* ------------------------------------------------------------------ Init
\* queued_at_timeout is history: the request was still in the queue when the
\* call's wait ran out
IdleMsg == [pc |-> "idle", session |-> None, request_id |-> None,
            request_data |-> NoPayload, timer |-> 0, status |-> 0, body |-> NoPayload,
            queued_at_timeout |-> FALSE]
\* took and queued_at_start are history: the requests this call dequeued, and
\* the length of its session's queue when the call started
IdlePoll == [pc |-> "idle", session |-> None, timer |-> 0, status |-> 0,
             request_id |-> None, request |-> NoPayload, took |-> <<>>,
             queued_at_start |-> 0]
\* after is history: the message calls that had ended with 504, their request
\* still queued, when this call came in
IdleResp == [pc |-> "idle", session |-> None, request_id |-> None,
             response_json |-> NoPayload, request |-> None, status |-> 0,
             after |-> {}]
\* reverse_client after construction: running_{false}, no session id, no
\* poll thread.  stop is the position of the thread that calls stop().
\* History: start is the outcome of the register call, seen the status of
\* the last poll reply (0: no result), m the request being handled, received
\* and posts how often each request was received from poll and posted to
\* response, undelivered the requests whose POST did not reach the relay,
\* loops the number of invocations of poll_loop that have not returned
IdleAgent == [pc |-> "idle", running_ |-> FALSE, session_id_ |-> None,
              request_id |-> None, request |-> NoPayload, timer |-> 0,
              blocking |-> FALSE, stop |-> "none", m |-> None,
              received |-> [k \in Msgs |-> 0], posts |-> [k \in Msgs |-> 0],
              start |-> "none", seen |-> 0, undelivered |-> {}, loops |-> 0]

Init ==
    /\ sessions = [id \in SessionIds |-> None]
    /\ heap = <<>>
    /\ reg = [status |-> 0, session_id |-> None]
    /\ msg = [m \in Msgs |-> IdleMsg]
    /\ response_promise = [m \in Msgs |-> NoValue]
    /\ poll = [p \in Polls |-> IdlePoll]
    /\ resp = [r \in Resps |-> IdleResp]
    /\ agent = IdleAgent
    /\ set_calls = [m \in Msgs |-> 0]
    /\ returned = [m \in Msgs |-> 0]
    /\ mutex = [L \in Locks |-> Free]

\* -------------------------------------------------------------- /register
\* json::parse throws on a malformed body -> 400; otherwise a new session
\* object is stored under the generated id (operator[] replaces an entry
\* that is already there).
Register(body, id) ==
    /\ IF body = Malformed
       THEN /\ reg' = [status |-> 400, session_id |-> None]
            /\ UNCHANGED <<sessions, heap>>
       ELSE /\ heap' = Append(heap, NewSession(id))
            /\ sessions' = [sessions EXCEPT ![id] = Len(heap) + 1]
            /\ reg' = [status |-> 200, session_id |-> id]
    /\ UNCHANGED <<msg, response_promise, poll, resp, set_calls, returned>>

\* ---------------------------------------------------------------- /message
\* MessageBegin that holds the caller when no session is registered
MessageBegin_hold(m) ==
    /\ msg[m].pc = "idle"
    /\ IF Registered = {}
       THEN msg' = [msg EXCEPT ![m].pc = "wait", ![m].timer = MsgWindow]
       ELSE msg' = [msg EXCEPT ![m].pc = "route", ![m].session = FirstSession]
    /\ UNCHANGED <<sessions, heap, reg, response_promise, poll, resp, set_calls, returned>>

\* MessageBegin taking the last session of the map (sessions.rbegin())
MessageBegin_last(m) ==
    /\ msg[m].pc = "idle"
    /\ IF Registered = {}
       THEN msg' = [msg EXCEPT ![m].pc = "done", ![m].status = 503]
       ELSE msg' = [msg EXCEPT ![m].pc = "route", ![m].session =
                       sessions[CHOOSE id \in Registered : \A other \in Registered : id >= other]]
    /\ UNCHANGED <<sessions, heap, reg, response_promise, poll, resp, set_calls, returned>>

\* lines 262-272: pick the first session under sessions_mutex, 503 if none
MessageBegin(m) ==
    /\ msg[m].pc = "idle"
    /\ IF Registered = {}
       THEN msg' = [msg EXCEPT ![m].pc = "done", ![m].status = 503]
       ELSE msg' = [msg EXCEPT ![m].pc = "route", ![m].session = FirstSession]
    /\ UNCHANGED <<sessions, heap, reg, response_promise, poll, resp, set_calls, returned>>

\* MessageEnqueue that queues the request before it parses the body
MessageEnqueue_unparsed(m, body, id) ==
    /\ msg[m].pc = "route"
    /\ heap' = [heap EXCEPT ![msg[m].session].pending_requests = Append(@, m)]
    /\ IF body = <<Malformed>>
       THEN msg' = [msg EXCEPT ![m].pc = "done", ![m].status = 400,
                               ![m].request_id = id]
       ELSE msg' = [msg EXCEPT ![m].pc = "wait", ![m].request_id = id,
                               ![m].request_data = body, ![m].timer = MsgWindow]
    /\ UNCHANGED <<sessions, reg, response_promise, poll, resp, set_calls, returned>>

\* lines 274-290: parse the body, create the pending_request, push it on the
\* session's queue under the session mutex, start wait_for(60 s)
MessageEnqueue(m, body, id) ==
    /\ msg[m].pc = "route"
    /\ IF body = <<Malformed>>
       THEN /\ msg' = [msg EXCEPT ![m].pc = "done", ![m].status = 400,
                                  ![m].session = None]
            /\ UNCHANGED heap
       ELSE /\ msg' = [msg EXCEPT ![m].pc = "wait", ![m].request_id = id,
                                  ![m].request_data = body, ![m].timer = MsgWindow]
            /\ heap' = [heap EXCEPT ![msg[m].session].pending_requests = Append(@, m)]
    /\ UNCHANGED <<sessions, reg, response_promise, poll, resp, set_calls, returned>>

\* lines 295-298: the future is ready
MessageReady(m) ==
    /\ msg[m].pc = "wait"
    /\ response_promise[m].set
    /\ msg' = [msg EXCEPT ![m].pc = "done", ![m].status = 200,
                          ![m].body = response_promise[m].value,
                          ![m].timer = 0]
    /\ UNCHANGED <<sessions, heap, reg, response_promise, poll, resp, set_calls, returned>>

\* lines 299-302: wait_for ran out with the future not ready
MessageTimeout(m) ==
    /\ msg[m].pc = "wait"
    /\ msg[m].timer = 0
    /\ ~response_promise[m].set
    /\ msg' = [msg EXCEPT ![m].pc = "done", ![m].status = 504,
                          ![m].queued_at_timeout = InQueue(m)]
    /\ UNCHANGED <<sessions, heap, reg, response_promise, poll, resp, set_calls, returned>>

\* ------------------------------------------------------------------- /poll
\* lines 123-146: session_id parameter, session lookup, start of the window
PollBegin(p, sid) ==
    /\ poll[p].pc = "idle"
    /\ poll' = [poll EXCEPT ![p] =
           IF sid = None THEN [IdlePoll EXCEPT !.pc = "done", !.status = 400]
           ELSE IF sessions[sid] = None THEN [IdlePoll EXCEPT !.pc = "done", !.status = 404]
           ELSE [IdlePoll EXCEPT !.pc = "loop", !.session = sessions[sid],
                                 !.timer = PollWindow,
                                 !.queued_at_start =
                                     Len(heap[sessions[sid]].pending_requests)]]
    /\ UNCHANGED <<sessions, heap, reg, msg, response_promise, resp, set_calls, returned>>

\* PollLoop with the window check left out: while (true)
PollLoop_nowindow(p) ==
    /\ poll[p].pc = "loop"
    /\ LET s == poll[p].session IN
       IF heap[s].pending_requests # <<>>
       THEN /\ heap' = Promote(heap, s)
            /\ poll' = [poll EXCEPT ![p].pc = "final",
                           ![p].took = Append(@, Head(heap[s].pending_requests))]
       ELSE /\ poll' = [poll EXCEPT ![p].pc = "sleep"]
            /\ UNCHANGED heap
    /\ UNCHANGED <<sessions, reg, msg, response_promise, resp, set_calls, returned>>

\* lines 148-163: one iteration of the wait loop.  The request declared at
\* line 149 is local to the loop body: what the iteration dequeues is put in
\* the in-flight index and the variable goes out of scope at the break.
PollLoop(p) ==
    /\ poll[p].pc = "loop"
    /\ LET s == poll[p].session IN
       IF poll[p].timer = 0
       THEN /\ poll' = [poll EXCEPT ![p].pc = "final"]
            /\ UNCHANGED heap
       ELSE IF heap[s].pending_requests # <<>>
       THEN /\ heap' = Promote(heap, s)
            /\ poll' = [poll EXCEPT ![p].pc = "final",
                           ![p].took = Append(@, Head(heap[s].pending_requests))]
       ELSE /\ poll' = [poll EXCEPT ![p].pc = "sleep"]
            /\ UNCHANGED heap
    /\ UNCHANGED <<sessions, reg, msg, response_promise, resp, set_calls, returned>>

\* PollFinal with front() and no pop(): the request stays in the queue
PollFinal_peek(p) ==
    /\ poll[p].pc = "final"
    /\ LET s == poll[p].session IN
       IF heap[s].pending_requests # <<>>
       THEN LET m == Head(heap[s].pending_requests) IN
            /\ heap' = [heap EXCEPT ![s].in_flight_requests[msg[m].request_id] = m]
            /\ poll' = [poll EXCEPT ![p].pc = "done", ![p].status = 200,
                           ![p].timer = 0,
                           ![p].request_id = msg[m].request_id,
                           ![p].request = msg[m].request_data,
                           ![p].took = Append(@, m)]
            /\ returned' = [returned EXCEPT ![m] = @ + 1]
       ELSE /\ poll' = [poll EXCEPT ![p].pc = "done", ![p].status = 204,
                                   ![p].timer = 0]
            /\ UNCHANGED <<heap, returned>>
    /\ UNCHANGED <<sessions, reg, msg, response_promise, resp, set_calls>>

\* lines 165-186: the request declared at line 165, a second dequeue under
\* the session mutex, and the reply
PollFinal(p) ==
    /\ poll[p].pc = "final"
    /\ LET s == poll[p].session IN
       IF heap[s].pending_requests # <<>>
       THEN LET m == Head(heap[s].pending_requests) IN
            /\ heap' = Promote(heap, s)
            /\ poll' = [poll EXCEPT ![p].pc = "done", ![p].status = 200,
                           ![p].timer = 0,
                           ![p].request_id = msg[m].request_id,
                           ![p].request = msg[m].request_data,
                           ![p].took = Append(@, m)]
            /\ returned' = [returned EXCEPT ![m] = @ + 1]
       ELSE /\ poll' = [poll EXCEPT ![p].pc = "done", ![p].status = 204,
                                   ![p].timer = 0]
            /\ UNCHANGED <<heap, returned>>
    /\ UNCHANGED <<sessions, reg, msg, response_promise, resp, set_calls>>

\* the reply has been sent; the connection can carry the next call

\* --------------------------------------------------------------- /response
\* lines 194-225: session_id parameter, session lookup, parse of the body
ResponseBegin(r, sid, body) ==
    /\ resp[r].pc = "idle"
    /\ resp' = [resp EXCEPT ![r] =
           IF sid = None THEN [IdleResp EXCEPT !.pc = "done", !.status = 400]
           ELSE IF sessions[sid] = None THEN [IdleResp EXCEPT !.pc = "done", !.status = 404]
           ELSE IF body.kind \in {Malformed, MissingField}
                THEN [IdleResp EXCEPT !.pc = "done", !.status = 400]
           ELSE [IdleResp EXCEPT !.pc = "find", !.session = sessions[sid],
                                 !.request_id = body.request_id,
                                 !.response_json = body.response,
                                 !.after = {m \in Msgs : /\ msg[m].pc = "done"
                                                         /\ msg[m].status = 504
                                                         /\ msg[m].queued_at_timeout}]]
    /\ UNCHANGED <<sessions, heap, reg, msg, response_promise, poll, set_calls, returned>>

\* ResponseFind taking in_flight_requests.begin() instead of find(request_id)
ResponseFind_first(r) ==
    /\ resp[r].pc = "find"
    /\ LET index == heap[resp[r].session].in_flight_requests
           keys == {k \in RequestIds : index[k] # None}
           first == CHOOSE k \in keys : \A other \in keys : k <= other
       IN IF keys = {}
          THEN /\ resp' = [resp EXCEPT ![r].pc = "resolve", ![r].request = None]
               /\ UNCHANGED heap
          ELSE /\ resp' = [resp EXCEPT ![r].pc = "resolve", ![r].request = index[first]]
               /\ heap' = [heap EXCEPT
                      ![resp[r].session].in_flight_requests[first] = None]
    /\ UNCHANGED <<sessions, reg, msg, response_promise, poll, set_calls, returned>>

\* ResponseFind that also looks for the request id in the queue
ResponseFind_queued(r) ==
    /\ resp[r].pc = "find"
    /\ LET s == resp[r].session
           id == resp[r].request_id
           q == heap[s].pending_requests
           found == heap[s].in_flight_requests[id]
           hits == {i \in 1..Len(q) : msg[q[i]].request_id = id}
       IN IF found = None /\ hits # {}
          THEN LET i == CHOOSE j \in hits : \A other \in hits : j <= other IN
               /\ resp' = [resp EXCEPT ![r].pc = "resolve", ![r].request = q[i]]
               /\ heap' = [heap EXCEPT ![s].pending_requests =
                               SubSeq(q, 1, i - 1) \o SubSeq(q, i + 1, Len(q))]
          ELSE /\ resp' = [resp EXCEPT ![r].pc = "resolve", ![r].request = found]
               /\ heap' = [heap EXCEPT ![s].in_flight_requests[id] = None]
    /\ UNCHANGED <<sessions, reg, msg, response_promise, poll, set_calls, returned>>

\* ResponseFind without the erase
ResponseFind_noerase(r) ==
    /\ resp[r].pc = "find"
    /\ resp' = [resp EXCEPT ![r].pc = "resolve",
           ![r].request = heap[resp[r].session].in_flight_requests[resp[r].request_id]]
    /\ UNCHANGED <<sessions, heap, reg, msg, response_promise, poll, set_calls, returned>>

\* lines 228-237: find and erase under the session mutex
ResponseFind(r) ==
    /\ resp[r].pc = "find"
    /\ LET found == heap[resp[r].session].in_flight_requests[resp[r].request_id]
       IN /\ resp' = [resp EXCEPT ![r].pc = "resolve", ![r].request = found]
          /\ heap' = [heap EXCEPT
                 ![resp[r].session].in_flight_requests[resp[r].request_id] = None]
    /\ UNCHANGED <<sessions, reg, msg, response_promise, poll, set_calls, returned>>

\* lines 239-252: set_value outside the lock; a promise that already holds a
\* value throws std::future_error, which the handler's catch turns into 400
ResponseResolve(r) ==
    /\ resp[r].pc = "resolve"
    /\ LET m == resp[r].request
           thrown == m # None /\ response_promise[m].set
       IN /\ resp' = [resp EXCEPT ![r].pc = "done",
                                  ![r].status = IF thrown THEN 400 ELSE 200]
          /\ IF m = None
             THEN UNCHANGED <<response_promise, set_calls>>
             ELSE /\ set_calls' = [set_calls EXCEPT ![m] = @ + 1]
                  /\ response_promise' =
                         IF thrown THEN response_promise
                         ELSE [response_promise EXCEPT ![m] =
                                  [set |-> TRUE, value |-> resp[r].response_json]]
    /\ UNCHANGED <<sessions, heap, reg, msg, poll, returned>>

\* ---------------------------------------------------------- reverse_client
\* The agent talks to the relay over one connection per endpoint: its poll
\* calls are served by poll thread 1, its response calls by response thread 1.
\* The outcome of an HTTP call of the agent is a choice of the network:
\* "down" (the call does not reach the relay, the client returns no result),
\* "lost" (the relay handles the call, the client returns no result),
\* "status" (the client gets a reply with a status that is not the relay's
\* success status), "nosid" (a 200 reply to register without session_id),
\* "ok" (the relay's reply arrives).

\* a JSON body of a message call that is not a JSON-RPC request
OtherJson(m) == <<"json", m>>

\* process_poll lines 196-204: the request is decoded into an mcp request
Decodable(request) == request # NoPayload /\ request[1] = "rpc"

\* mcp_server_->process_request_public(mcp_req, session_id_)
Process(request) == <<"result", request[2]>>

\* AgentStart that starts the poll loop whatever the registration gave
AgentStart_anyway(net, id, blocking) ==
    /\ agent.pc = "idle"
    /\ ~agent.running_
    /\ IF net \in {"down", "status", "nosid"}
       THEN /\ agent' = [agent EXCEPT !.pc = "poll_loop", !.running_ = TRUE,
                                      !.blocking = blocking, !.start = net]
            /\ UNCHANGED <<sessions, heap, reg, msg, response_promise, poll, resp,
                           set_calls, returned>>
       ELSE /\ Register("registration", id)
            /\ agent' = [agent EXCEPT !.pc = "poll_loop", !.running_ = TRUE,
                                      !.session_id_ = id, !.blocking = blocking,
                                      !.start = net, !.loops = 1]

\* start(), lines 48-77, with register_with_proxy, lines 104-141: when the
\* registration fails start returns false; otherwise the session id of the
\* reply is stored, running_ is set and the poll loop starts, in the caller's
\* thread (blocking) or in poll_thread_
AgentStart(net, id, blocking) ==
    /\ agent.pc = "idle"
    /\ ~agent.running_
    /\ IF net \in {"down", "status", "nosid"}
       THEN /\ agent' = [agent EXCEPT !.pc = "failed", !.start = net]
            /\ UNCHANGED <<sessions, heap, reg, msg, response_promise, poll, resp,
                           set_calls, returned>>
       ELSE /\ Register("registration", id)
            /\ agent' = IF net = "lost"
                        THEN [agent EXCEPT !.pc = "failed", !.start = net]
                        ELSE [agent EXCEPT !.pc = "poll_loop", !.running_ = TRUE,
                                           !.session_id_ = id, !.blocking = blocking,
                                           !.start = net, !.loops = 1]

\* what the http client hands to the agent: no result (0), the status of
\* the relay's reply, or another status
Seen(net, status) == IF net = "lost" THEN 0 ELSE IF net = "status" THEN 500 ELSE status

\* poll_loop line 146 and process_poll lines 163-170: the loop condition and
\* the GET on the poll endpoint
AgentPoll(net) ==
    /\ agent.pc = "poll_loop"
    /\ agent.running_
    /\ IF net = "down"
       THEN /\ agent' = [agent EXCEPT !.pc = "retry_sleep", !.timer = RetryDelay,
                                      !.seen = 0]
            /\ UNCHANGED <<sessions, heap, reg, msg, response_promise, poll, resp,
                           set_calls, returned>>
       ELSE /\ PollBegin(1, agent.session_id_)
            /\ agent' = [agent EXCEPT !.pc = "polling"]

\* AgentPollReply that sleeps the retry delay after a 204 as well
AgentPollReply_sleepy(net) ==
    /\ agent.pc = "polling"
    /\ poll[1].pc = "done"
    /\ poll' = [poll EXCEPT ![1] = IdlePoll]
    /\ agent' =
          IF net = "ok" /\ poll[1].status = 200 /\ Decodable(poll[1].request)
          THEN LET m == poll[1].took[Len(poll[1].took)] IN
               [agent EXCEPT !.pc = "send_response",
                             !.request_id = poll[1].request_id,
                             !.request = poll[1].request,
                             !.m = m, !.received[m] = @ + 1, !.seen = 200]
          ELSE IF net = "ok" /\ poll[1].status = 200
          THEN LET m == poll[1].took[Len(poll[1].took)] IN
               [agent EXCEPT !.pc = "retry_sleep", !.timer = RetryDelay,
                             !.received[m] = @ + 1, !.seen = 200]
          ELSE [agent EXCEPT !.pc = "retry_sleep", !.timer = RetryDelay,
                             !.seen = Seen(net, poll[1].status)]
    /\ UNCHANGED <<sessions, heap, reg, msg, response_promise, resp, set_calls, returned>>

\* process_poll lines 167-204: the reply of the poll call.  No result or a
\* status other than 200 and 204 makes process_poll return false; a 200 whose
\* request cannot be decoded throws a json exception, caught at line 212,
\* and process_poll returns false as well.  m, received are history: the
\* request the reply carried.
AgentPollReply(net) ==
    /\ agent.pc = "polling"
    /\ poll[1].pc = "done"
    /\ poll' = [poll EXCEPT ![1] = IdlePoll]
    /\ agent' =
          IF net = "ok" /\ poll[1].status = 204
          THEN [agent EXCEPT !.pc = "poll_loop", !.seen = 204]
          ELSE IF net = "ok" /\ poll[1].status = 200 /\ Decodable(poll[1].request)
          THEN LET m == poll[1].took[Len(poll[1].took)] IN
               [agent EXCEPT !.pc = "send_response",
                             !.request_id = poll[1].request_id,
                             !.request = poll[1].request,
                             !.m = m, !.received[m] = @ + 1, !.seen = 200]
          ELSE IF net = "ok" /\ poll[1].status = 200
          THEN LET m == poll[1].took[Len(poll[1].took)] IN
               [agent EXCEPT !.pc = "retry_sleep", !.timer = RetryDelay,
                             !.received[m] = @ + 1, !.seen = 200]
          ELSE [agent EXCEPT !.pc = "retry_sleep", !.timer = RetryDelay,
                             !.seen = Seen(net, poll[1].status)]
    /\ UNCHANGED <<sessions, heap, reg, msg, response_promise, resp, set_calls, returned>>

\* process_poll lines 206-217 and send_response lines 221-236: the dispatch
\* and the POST on the response endpoint.  An exception of the dispatcher is
\* caught at line 215 and process_poll returns false; so does send_response
\* when the POST returns no result.  posts is history: the POSTs made for
\* each request.
AgentSendResponse(dispatch, net) ==
    /\ agent.pc = "send_response"
    /\ IF dispatch = "raises"
       THEN /\ agent' = [agent EXCEPT !.pc = "retry_sleep", !.timer = RetryDelay,
                                      !.request_id = None, !.request = NoPayload,
                                      !.m = None]
            /\ UNCHANGED <<sessions, heap, reg, msg, response_promise, poll, resp,
                           set_calls, returned>>
       ELSE IF net = "down"
       THEN /\ agent' = [agent EXCEPT !.pc = "retry_sleep", !.timer = RetryDelay,
                                      !.request_id = None, !.request = NoPayload,
                                      !.m = None, !.posts[agent.m] = @ + 1,
                                      !.undelivered = @ \cup {agent.m}]
            /\ UNCHANGED <<sessions, heap, reg, msg, response_promise, poll, resp,
                           set_calls, returned>>
       ELSE /\ ResponseBegin(1, agent.session_id_,
                             [kind |-> "ok", request_id |-> agent.request_id,
                              response |-> Process(agent.request)])
            /\ agent' = [agent EXCEPT !.pc = "responding", !.posts[agent.m] = @ + 1]

\* send_response lines 233-239 and poll_loop lines 148-152: the reply of the
\* response call; anything but a 200 makes process_poll return false
AgentResponseReply(net) ==
    /\ agent.pc = "responding"
    /\ resp[1].pc = "done"
    /\ resp' = [resp EXCEPT ![1] = IdleResp]
    /\ agent' =
          IF net = "ok" /\ resp[1].status = 200
          THEN [agent EXCEPT !.pc = "poll_loop", !.request_id = None,
                             !.request = NoPayload, !.m = None]
          ELSE [agent EXCEPT !.pc = "retry_sleep", !.timer = RetryDelay,
                             !.request_id = None, !.request = NoPayload, !.m = None]
    /\ UNCHANGED <<sessions, heap, reg, msg, response_promise, poll, set_calls, returned>>

\* poll_loop lines 151 and 155: the retry sleep is over
AgentWake ==
    /\ agent.pc = "retry_sleep"
    /\ agent.timer = 0
    /\ agent' = [agent EXCEPT !.pc = "poll_loop"]
    /\ UNCHANGED <<sessions, heap, reg, msg, response_promise, poll, resp,
                   set_calls, returned>>

\* poll_loop lines 146 and 159: the loop condition is false
AgentLoopExit ==
    /\ agent.pc = "poll_loop"
    /\ ~agent.running_
    /\ agent' = [agent EXCEPT !.pc = "exited", !.loops = @ - 1]
    /\ UNCHANGED <<sessions, heap, reg, msg, response_promise, poll, resp,
                   set_calls, returned>>

\* AgentStop that does not wait for the poll thread
AgentStop_nojoin ==
    /\ agent.running_
    /\ agent.stop = "none"
    /\ agent' = [agent EXCEPT !.running_ = FALSE, !.stop = "returned"]
    /\ UNCHANGED <<sessions, heap, reg, msg, response_promise, poll, resp,
                   set_calls, returned>>

\* stop(), lines 79-86, called by a thread of the host: running_ = false,
\* then the join of poll_thread_ when there is one (lines 88-90)
AgentStop ==
    /\ agent.running_
    /\ agent.stop = "none"
    /\ agent' = [agent EXCEPT !.running_ = FALSE,
                              !.stop = IF agent.blocking THEN "returned" ELSE "joining"]
    /\ UNCHANGED <<sessions, heap, reg, msg, response_promise, poll, resp,
                   set_calls, returned>>

\* stop(), lines 89-92: join returns when the poll thread has ended
AgentJoin ==
    /\ agent.stop = "joining"
    /\ agent.pc = "exited"
    /\ agent' = [agent EXCEPT !.stop = "returned"]
    /\ UNCHANGED <<sessions, heap, reg, msg, response_promise, poll, resp,
                   set_calls, returned>>

\* start(), lines 48-77, called again by a thread of the host after stop()
\* has returned: running_ is false (line 49), so the agent registers again,
\* sets running_ and calls poll_loop once more, in the caller's thread or in a
\* new poll_thread_.  pc is the position of the loop that was started first
\* for as long as that loop has not returned.
AgentRestart(net, id, blocking) ==
    /\ agent.stop = "returned"
    /\ ~agent.running_
    /\ Len(heap) < MaxSessions
    /\ IF net \in {"down", "status", "nosid"}
       THEN /\ agent' = [agent EXCEPT !.start = net]
            /\ UNCHANGED <<sessions, heap, reg, msg, response_promise, poll, resp,
                           set_calls, returned>>
       ELSE /\ Register("registration", id)
            /\ agent' = IF net = "lost"
                        THEN [agent EXCEPT !.start = net]
                        ELSE [agent EXCEPT !.running_ = TRUE, !.session_id_ = id,
                                           !.blocking = blocking, !.start = net,
                                           !.loops = @ + 1,
                                           !.pc = IF agent.pc = "exited"
                                                  THEN "poll_loop" ELSE @]

\* --------------------------------------------------------------------- time
\* some thread is in sleep_for or in a timed wait
TimeMatters ==
    \/ \E p \in Polls : poll[p].pc = "sleep" \/ (poll[p].pc = "loop" /\ poll[p].timer > 0)
    \/ \E m \in Msgs : msg[m].pc = "wait" /\ msg[m].timer > 0
    \/ agent.pc = "retry_sleep" /\ agent.timer > 0

\* one sleep_for period of the poll loop passes: sleeping poll loops wake up,
\* running windows, waits and retry sleeps lose one tick
Tick ==
    /\ TimeMatters
    /\ poll' = [p \in Polls |->
           IF poll[p].pc \in {"sleep", "loop"}
           THEN [poll[p] EXCEPT !.pc = "loop",
                                !.timer = IF @ > 0 THEN @ - 1 ELSE 0]
           ELSE poll[p]]
    /\ msg' = [m \in Msgs |->
           IF msg[m].pc = "wait" /\ msg[m].timer > 0
           THEN [msg[m] EXCEPT !.timer = @ - 1]
           ELSE msg[m]]
    /\ agent' = IF agent.pc = "retry_sleep" /\ agent.timer > 0
                THEN [agent EXCEPT !.timer = @ - 1]
                ELSE agent
    /\ UNCHANGED <<sessions, heap, reg, response_promise, resp, set_calls, returned, mutex>>

\* no thread can take a step without time passing: every handler and the
\* agent are in sleep_for, in a blocking call or finished
Quiet ==
    /\ \A m \in Msgs :
          /\ msg[m].pc # "route"
          /\ msg[m].pc = "wait" => (msg[m].timer > 0 /\ ~response_promise[m].set)
    /\ \A p \in Polls : poll[p].pc \in {"idle", "sleep"}
    /\ \A r \in Resps : resp[r].pc = "idle"
    /\ agent.pc \in {"idle", "failed", "polling", "exited"}
          \/ (agent.pc = "retry_sleep" /\ agent.timer > 0)
    /\ ~(agent.stop = "joining" /\ agent.pc = "exited")

\* time passes only while every thread waits for it: computation takes no
\* time compared with the 100 ms sleep of the poll loop
QuietTick == Quiet /\ Tick

\* ------------------------------------------------------------------- Next
\* bodies a /response call can carry: not JSON, JSON without request_id or
\* response, or both fields
ResponseBodies(r) ==
    {[kind |-> k, request_id |-> None, response |-> NoPayload] : k \in {Malformed, MissingField}}
    \cup [kind : {"ok"}, request_id : RequestIds, response : {PayloadOf(r)}]

\* calls are numbered in the order in which they start: call t of a kind
\* starts after calls 1..t-1 of that kind (the threads are interchangeable)
InOrder(calls, t) == \A k \in DOMAIN calls : k < t => calls[k].pc # "idle"

\* the relay under calls of any kind on the connections Ps (poll) and Rs
\* (response), with session ids drawn from Ids and at most cap sessions ever
\* registered
Relay(Ps, Rs, Ids, cap) ==
    \/ \E body \in {Malformed, "registration"}, id \in generate_id(Ids) :
           Len(heap) < cap /\ Register(body, id) /\ UNCHANGED <<agent, mutex>>
    \/ \E m \in Msgs : InOrder(msg, m) /\ MessageBegin(m) /\ UNCHANGED <<agent, mutex>>
    \/ \E m \in Msgs : \E body \in {BodyOf(m), <<Malformed>>}, id \in generate_id(RequestIds) :
           MessageEnqueue(m, body, id) /\ UNCHANGED <<agent, mutex>>
    \/ \E m \in Msgs : MessageReady(m) /\ UNCHANGED <<agent, mutex>>
    \/ \E m \in Msgs : MessageTimeout(m) /\ UNCHANGED <<agent, mutex>>
    \/ \E p \in Ps, sid \in Ids \cup {None} :
           InOrder(poll, p) /\ PollBegin(p, sid) /\ UNCHANGED <<agent, mutex>>
    \/ \E p \in Ps : PollLoop(p) /\ UNCHANGED <<agent, mutex>>
    \/ \E p \in Ps : PollFinal(p) /\ UNCHANGED <<agent, mutex>>
    \/ \E r \in Rs : \E sid \in Ids \cup {None}, body \in ResponseBodies(r) :
           InOrder(resp, r) /\ ResponseBegin(r, sid, body) /\ UNCHANGED <<agent, mutex>>
    \/ \E r \in Rs : ResponseFind(r) /\ UNCHANGED <<agent, mutex>>
    \/ \E r \in Rs : ResponseResolve(r) /\ UNCHANGED <<agent, mutex>>
    \/ Tick

\* the relay with every connection in use
Next == Relay(Polls, Resps, SessionIds, MaxSessions)

Spec == Init /\ [][Next]_vars

\* one session, concurrent poll calls, one response connection
PollNext == Relay(Polls, {1}, {1}, 1)

PollSpec == Init /\ [][PollNext]_vars

\* the queue side of the relay alone: one session, message calls that are
\* never answered, concurrent poll calls
QueueNext ==
    \/ \E body \in {Malformed, "registration"}, id \in generate_id({1}) :
           heap = <<>> /\ Register(body, id) /\ UNCHANGED <<agent, mutex>>
    \/ \E m \in Msgs : InOrder(msg, m) /\ MessageBegin(m) /\ UNCHANGED <<agent, mutex>>
    \/ \E m \in Msgs : \E body \in {BodyOf(m), <<Malformed>>}, id \in generate_id(RequestIds) :
           MessageEnqueue(m, body, id) /\ UNCHANGED <<agent, mutex>>
    \/ \E m \in Msgs : MessageTimeout(m) /\ UNCHANGED <<agent, mutex>>
    \/ \E p \in Polls, sid \in {1, None} :
           InOrder(poll, p) /\ PollBegin(p, sid) /\ UNCHANGED <<agent, mutex>>
    \/ \E p \in Polls : PollLoop(p) /\ UNCHANGED <<agent, mutex>>
    \/ \E p \in Polls : PollFinal(p) /\ UNCHANGED <<agent, mutex>>
    \/ Tick

\* the scheduler runs every poll handler thread that can take a step, and
\* time passes
QueueFairSpec ==
    /\ Init /\ [][QueueNext]_vars
    /\ WF_vars(Tick)
    /\ \A p \in Polls : WF_vars(PollLoop(p) /\ UNCHANGED <<agent, mutex>>)
    /\ \A p \in Polls : WF_vars(PollFinal(p) /\ UNCHANGED <<agent, mutex>>)

\* one session, one poll connection, concurrent response calls
ResponseNext == Relay({1}, Resps, {1}, 1)

ResponseSpec == Init /\ [][ResponseNext]_vars

\* several registrations, one poll and one response connection
RegistryNext == Relay({1}, {1}, SessionIds, MaxSessions)

RegistrySpec == Init /\ [][RegistryNext]_vars

\* one session, one poll and one response connection, and register calls
\* with a malformed body at any time
RejectNext ==
    \/ \E body \in {Malformed, "registration"}, id \in generate_id({1}) :
           /\ body = Malformed \/ heap = <<>>
           /\ Register(body, id) /\ UNCHANGED <<agent, mutex>>
    \/ \E m \in Msgs : InOrder(msg, m) /\ MessageBegin(m) /\ UNCHANGED <<agent, mutex>>
    \/ \E m \in Msgs : \E body \in {BodyOf(m), <<Malformed>>}, id \in generate_id(RequestIds) :
           MessageEnqueue(m, body, id) /\ UNCHANGED <<agent, mutex>>
    \/ \E m \in Msgs : MessageReady(m) /\ UNCHANGED <<agent, mutex>>
    \/ \E m \in Msgs : MessageTimeout(m) /\ UNCHANGED <<agent, mutex>>
    \/ \E sid \in {1, None} : PollBegin(1, sid) /\ UNCHANGED <<agent, mutex>>
    \/ PollLoop(1) /\ UNCHANGED <<agent, mutex>>
    \/ PollFinal(1) /\ UNCHANGED <<agent, mutex>>
    \/ \E sid \in {1, None}, body \in ResponseBodies(1) :
           ResponseBegin(1, sid, body) /\ UNCHANGED <<agent, mutex>>
    \/ ResponseFind(1) /\ UNCHANGED <<agent, mutex>>
    \/ ResponseResolve(1) /\ UNCHANGED <<agent, mutex>>
    \/ Tick

RejectSpec == Init /\ [][RejectNext]_vars

\* one agent that is started, keeps polling and answers every request, and
\* message calls that arrive at any time; no call fails in transport, so
\* the agent never sleeps its retry delay
AgentNext ==
    \/ \E id \in generate_id(SessionIds) : heap = <<>> /\ AgentStart("ok", id, FALSE) /\ UNCHANGED mutex
    \/ AgentPoll("ok") /\ UNCHANGED mutex
    \/ AgentPollReply("ok") /\ UNCHANGED mutex
    \/ AgentSendResponse("result", "ok") /\ UNCHANGED mutex
    \/ AgentResponseReply("ok") /\ UNCHANGED mutex
    \/ \E m \in Msgs : InOrder(msg, m) /\ MessageBegin(m) /\ UNCHANGED <<agent, mutex>>
    \/ \E m \in Msgs : \E id \in generate_id(RequestIds) :
           MessageEnqueue(m, BodyOf(m), id) /\ UNCHANGED <<agent, mutex>>
    \/ \E m \in Msgs : MessageReady(m) /\ UNCHANGED <<agent, mutex>>
    \/ \E m \in Msgs : MessageTimeout(m) /\ UNCHANGED <<agent, mutex>>
    \/ PollLoop(1) /\ UNCHANGED <<agent, mutex>>
    \/ PollFinal(1) /\ UNCHANGED <<agent, mutex>>
    \/ ResponseFind(1) /\ UNCHANGED <<agent, mutex>>
    \/ ResponseResolve(1) /\ UNCHANGED <<agent, mutex>>
    \/ QuietTick

AgentSpec == Init /\ [][AgentNext]_vars

\* one agent on a network that can fail any of its calls, a dispatcher that
\* can raise, a host that can stop the agent at any time, and message calls
\* whose JSON body is a JSON-RPC request or, unless rpc_only, other JSON; the
\* session id is drawn from Ids
AgentFault(Ids, rpc_only) ==
    \/ \E net \in {"down", "lost", "status", "nosid", "ok"} :
       \E id \in generate_id(Ids), blocking \in BOOLEAN :
           AgentStart(net, id, blocking) /\ UNCHANGED mutex
    \/ \E net \in {"down", "ok"} : AgentPoll(net) /\ UNCHANGED mutex
    \/ \E net \in {"lost", "status", "ok"} : AgentPollReply(net) /\ UNCHANGED mutex
    \/ \E dispatch \in {"result", "raises"}, net \in {"down", "ok"} :
           AgentSendResponse(dispatch, net) /\ UNCHANGED mutex
    \/ \E net \in {"lost", "status", "ok"} : AgentResponseReply(net) /\ UNCHANGED mutex
    \/ AgentWake /\ UNCHANGED mutex
    \/ AgentLoopExit /\ UNCHANGED mutex
    \/ AgentStop /\ UNCHANGED mutex
    \/ AgentJoin /\ UNCHANGED mutex
    \/ \E m \in Msgs : InOrder(msg, m) /\ MessageBegin(m) /\ UNCHANGED <<agent, mutex>>
    \/ \E m \in Msgs : \E body \in {BodyOf(m)} \cup (IF rpc_only THEN {} ELSE {OtherJson(m)}) :
       \E id \in generate_id(RequestIds) :
           MessageEnqueue(m, body, id) /\ UNCHANGED <<agent, mutex>>
    \/ \E m \in Msgs : MessageReady(m) /\ UNCHANGED <<agent, mutex>>
    \/ \E m \in Msgs : MessageTimeout(m) /\ UNCHANGED <<agent, mutex>>
    \/ PollLoop(1) /\ UNCHANGED <<agent, mutex>>
    \/ PollFinal(1) /\ UNCHANGED <<agent, mutex>>
    \/ ResponseFind(1) /\ UNCHANGED <<agent, mutex>>
    \/ ResponseResolve(1) /\ UNCHANGED <<agent, mutex>>
    \/ QuietTick

\* message bodies that are JSON-RPC requests or other JSON
AgentFaultNext == AgentFault(SessionIds, FALSE)

AgentFaultSpec == Init /\ [][AgentFaultNext]_vars

\* message bodies that are JSON-RPC requests
AgentLoopNext == AgentFault({1}, TRUE)

\* threads that keep running: some thread that can take a step takes one,
\* and time passes when all of them wait
AgentFairSpec == Init /\ [][AgentLoopNext]_vars /\ WF_vars(AgentLoopNext)

\* the host starts the agent again after it has stopped it
RestartNext ==
    \/ AgentFault(SessionIds, TRUE)
    \/ \E net \in {"down", "ok"} : \E id \in generate_id(SessionIds), blocking \in BOOLEAN :
           AgentRestart(net, id, blocking) /\ UNCHANGED mutex

RestartSpec == Init /\ [][RestartNext]_vars

\* ------------------------------------------------------------------ locks
\* In the specifications above a block under a lock_guard is one step.  Here
\* taking the lock is a step of its own, so that threads wait for one another.

\* the locks a handler thread owns
Held(t) == {L \in Locks : mutex[L] = t}

\* constructor of std::lock_guard: the thread goes on when the mutex is free
Acquire(t, L) ==
    /\ mutex[L] = Free
    /\ mutex' = [mutex EXCEPT ![L] = t]
    /\ UNCHANGED <<sessions, heap, reg, msg, response_promise, poll, resp, agent,
                   set_calls, returned>>

\* the block of a lock_guard: the steps of the block, and the destructor of
\* the guard on every way out of the block (end of scope, return, break)
Guarded(t, L, A) == mutex[L] = t /\ A /\ mutex' = [mutex EXCEPT ![L] = Free]

\* steps of a thread that is not inside a block
Unguarded(t, A) == Held(t) = {} /\ A /\ UNCHANGED mutex

\* /poll lines 133-142 with a lock that the return at line 139 does not release
PollLookup_held(p, sid) ==
    /\ mutex[0] = <<"poll", p>>
    /\ PollBegin(p, sid)
    /\ mutex' = IF sessions[sid] = None THEN mutex ELSE [mutex EXCEPT ![0] = Free]

\* /poll lines 133-142: the lookup of the session under sessions_mutex
PollLookup(p, sid) == Guarded(<<"poll", p>>, 0, PollBegin(p, sid))

\* time passes while no thread is inside a block: a block takes no time
\* compared with the 100 ms sleep of the poll loop
LockTick == (\A L \in Locks : mutex[L] = Free) /\ Tick

\* the relay with one session, one poll and one response connection, every
\* lock_guard taken in a step of its own
LockNext ==
    \/ \E id \in generate_id({1}) :
           heap = <<>> /\ Unguarded(<<"register", 1>>, Register(Malformed, id)) /\ UNCHANGED agent
    \/ heap = <<>> /\ Acquire(<<"register", 1>>, 0)
    \/ \E id \in generate_id({1}) :
           Guarded(<<"register", 1>>, 0, Register("registration", id)) /\ UNCHANGED agent
    \/ \E m \in Msgs : InOrder(msg, m) /\ msg[m].pc = "idle" /\ Acquire(<<"message", m>>, 0)
    \/ \E m \in Msgs : Guarded(<<"message", m>>, 0, MessageBegin(m)) /\ UNCHANGED agent
    \/ \E m \in Msgs : \E id \in generate_id(RequestIds) :
           Unguarded(<<"message", m>>, MessageEnqueue(m, <<Malformed>>, id)) /\ UNCHANGED agent
    \/ \E m \in Msgs : msg[m].pc = "route" /\ Acquire(<<"message", m>>, msg[m].session)
    \/ \E m \in Msgs : \E id \in generate_id(RequestIds) :
           Guarded(<<"message", m>>, msg[m].session, MessageEnqueue(m, BodyOf(m), id))
           /\ UNCHANGED agent
    \/ \E m \in Msgs : Unguarded(<<"message", m>>, MessageReady(m)) /\ UNCHANGED agent
    \/ \E m \in Msgs : Unguarded(<<"message", m>>, MessageTimeout(m)) /\ UNCHANGED agent
    \/ Unguarded(<<"poll", 1>>, PollBegin(1, None)) /\ UNCHANGED agent
    \/ poll[1].pc = "idle" /\ Acquire(<<"poll", 1>>, 0)
    \/ \E sid \in {1} : PollLookup(1, sid) /\ UNCHANGED agent
    \/ poll[1].pc = "loop" /\ poll[1].timer = 0
           /\ Unguarded(<<"poll", 1>>, PollLoop(1)) /\ UNCHANGED agent
    \/ (poll[1].pc = "final" \/ (poll[1].pc = "loop" /\ poll[1].timer > 0))
           /\ Acquire(<<"poll", 1>>, poll[1].session)
    \/ Guarded(<<"poll", 1>>, poll[1].session, PollLoop(1)) /\ UNCHANGED agent
    \/ Guarded(<<"poll", 1>>, poll[1].session, PollFinal(1)) /\ UNCHANGED agent
    \/ \E body \in ResponseBodies(1) :
           Unguarded(<<"response", 1>>, ResponseBegin(1, None, body)) /\ UNCHANGED agent
    \/ resp[1].pc = "idle" /\ Acquire(<<"response", 1>>, 0)
    \/ \E sid \in {1}, body \in ResponseBodies(1) :
           Guarded(<<"response", 1>>, 0, ResponseBegin(1, sid, body)) /\ UNCHANGED agent
    \/ resp[1].pc = "find" /\ Acquire(<<"response", 1>>, resp[1].session)
    \/ Guarded(<<"response", 1>>, resp[1].session, ResponseFind(1)) /\ UNCHANGED agent
    \/ Unguarded(<<"response", 1>>, ResponseResolve(1)) /\ UNCHANGED agent
    \/ LockTick

LockSpec == Init /\ [][LockNext]_vars

\* ================================================================ claims

\* C1: with one registered session and one agent that keeps polling and
\* answers every request it receives, every message call that was accepted
\* returns 200 with the response the agent computed for its request; none
\* ends in 504.
C1_EveryCallAnswered ==
    \A m \in Msgs :
        (msg[m].pc = "done" /\ msg[m].status # 503)
            => /\ msg[m].status = 200
               /\ msg[m].body = Process(msg[m].request_data)

\* C2: a message call that returns 200 returns the payload of a response call
\* that named its own request id.
C2_ResponseOnlyToItsRequest ==
    \A m \in Msgs :
        (msg[m].pc = "done" /\ msg[m].status = 200)
            => \E r \in Resps : /\ msg[m].body = PayloadOf(r)
                                /\ resp[r].response_json = PayloadOf(r)
                                /\ resp[r].request_id = msg[m].request_id

\* two requests with different ids are in flight, responses for both ids
\* were submitted, and one of the calls has returned 200
C2_Witness ==
    \E m, k \in Msgs :
        /\ msg[m].pc = "done" /\ msg[m].status = 200
        /\ msg[k].request_id \notin {None, msg[m].request_id}
        /\ \E r \in Resps : resp[r].pc = "done" /\ resp[r].request = k

\* C3: a poll call that moved a request from the queue into the in-flight
\* index returns 200 with the id and payload of that request (never 204).
C3_DequeuedIsReturned ==
    \A p \in Polls :
        (poll[p].pc = "done" /\ poll[p].took # <<>>)
            => /\ poll[p].status = 200
               /\ poll[p].request_id = msg[poll[p].took[1]].request_id
               /\ poll[p].request = msg[poll[p].took[1]].request_data

\* C4: one poll call removes at most one request from the queue.
C4_AtMostOneDequeue ==
    \A p \in Polls : Len(poll[p].took) <= 1

\* C5: a request is returned by at most one poll call, it is dequeued at most
\* once over all poll calls, and once dequeued it is not in a queue again.
C5_AtMostOnceDelivery ==
    \A m \in Msgs :
        /\ returned[m] <= 1
        /\ Cardinality({pi \in Polls \X (1..NMsg) :
               pi[2] <= Len(poll[pi[1]].took) /\ poll[pi[1]].took[pi[2]] = m}) <= 1
        /\ (\E p \in Polls : \E i \in 1..Len(poll[p].took) : poll[p].took[i] = m)
              => \A s \in 1..Len(heap) :
                    \A i \in 1..Len(heap[s].pending_requests) :
                        heap[s].pending_requests[i] # m

\* a request was returned by one poll call, and a second poll call on the
\* same session, running at the same time, has finished too
C5_Witness ==
    \E m \in Msgs : \E p, q \in Polls :
        /\ p # q
        /\ returned[m] = 1
        /\ poll[p].pc = "done" /\ poll[p].status = 200 /\ m = poll[p].took[Len(poll[p].took)]
        /\ poll[q].pc = "done" /\ poll[q].status \in {200, 204}
        /\ poll[q].queued_at_start > 0
        /\ poll[q].session = poll[p].session

\* C6: two poll calls that both started on a session holding exactly one
\* queued request, with no other request ever pushed: exactly one of them
\* returns 200 and the other 204.
C6_ExactlyOneGetsIt ==
    \A p, q \in Polls :
        (/\ p # q
         /\ poll[p].pc = "done" /\ poll[q].pc = "done"
         /\ poll[p].session = poll[q].session
         /\ poll[p].queued_at_start = 1 /\ poll[q].queued_at_start = 1
         /\ Pushed(poll[p].session) = 1)
            => {poll[p].status, poll[q].status} = {200, 204}

\* C7: a step of a poll call that finds its session's queue empty changes
\* neither the queue nor the in-flight index of any session, and if the call
\* ends there it ends with 204 and no request; and every poll call that has
\* started its window ends.
C7_EmptyStep ==
    \A p \in Polls :
        (/\ poll[p].pc \in {"loop", "sleep", "final"}
         /\ heap[poll[p].session].pending_requests = <<>>
         /\ poll'[p] # poll[p])
            => /\ heap' = heap
               /\ poll'[p].took = poll[p].took
               /\ poll'[p].pc = "done" =>
                     (poll'[p].status = 204 /\ poll'[p].request = NoPayload
                        /\ poll'[p].request_id = None)

C7_EmptyPollEnds ==
    /\ [][C7_EmptyStep]_vars
    /\ \A p \in Polls : (poll[p].pc \in {"loop", "sleep", "final"}) ~> (poll[p].pc = "done")

\* a poll call ended with 204 without having dequeued anything, on a session
\* that never had a request
C7_Witness ==
    \E p \in Polls :
        /\ poll[p].pc = "done" /\ poll[p].status = 204 /\ poll[p].took = <<>>
        /\ Pushed(poll[p].session) = 0

\* C8: a response call on a registered session whose request id is not in
\* that session's in-flight index changes no queue and no in-flight index,
\* resolves no waiter, changes no message call and returns 200.
C8_UnknownIdStep ==
    \A r \in Resps :
        /\ (/\ resp[r].pc = "find"
            /\ heap[resp[r].session].in_flight_requests[resp[r].request_id] = None
            /\ resp'[r] # resp[r])
               => /\ heap' = heap
                  /\ resp'[r].pc = "resolve" /\ resp'[r].request = None
        /\ (/\ resp[r].pc = "resolve"
            /\ resp[r].request = None
            /\ resp'[r] # resp[r])
               => /\ heap' = heap
                  /\ response_promise' = response_promise
                  /\ msg' = msg
                  /\ resp'[r].pc = "done" /\ resp'[r].status = 200

C8_UnknownIdIsNoOp == [][C8_UnknownIdStep]_vars

\* two response calls named the same request id: one found the request, the
\* other did not and returned 200; and a call named an id that is still in
\* the queue and returned 200
C8_Witness ==
    /\ \E r, q \in Resps :
          /\ r # q
          /\ resp[r].request_id = resp[q].request_id
          /\ resp[r].pc = "done" /\ resp[r].request # None
          /\ resp[q].pc = "done" /\ resp[q].request = None /\ resp[q].status = 200
    /\ \E m \in Msgs : \E s \in 1..Len(heap) :
          /\ heap[s].pending_requests = <<m>>
          /\ \E q \in Resps : resp[q].request_id = msg[m].request_id

\* C9: set_value is called at most once on a request's promise, no response
\* call fails on a promise that already holds a value, and a response call
\* that resolves a request whose message call has already returned changes
\* no message call.
C9_ResolveStep ==
    /\ \A m \in Msgs : set_calls'[m] <= 1
    /\ \A r \in Resps :
          (resp[r].pc = "resolve" /\ resp[r].request # None /\ resp'[r] # resp[r])
             => /\ resp'[r].status = 200
                /\ msg[resp[r].request].pc = "done" => msg' = msg

C9_ResolvedAtMostOnce == [][C9_ResolveStep]_vars

\* a message call returned 504, its request was resolved afterwards, and a
\* second response call for the same request id has returned too
C9_Witness ==
    \E m \in Msgs : \E r, q \in Resps :
        /\ r # q
        /\ msg[m].pc = "done" /\ msg[m].status = 504
        /\ response_promise[m].set /\ set_calls[m] = 1
        /\ resp[r].pc = "done" /\ resp[r].request = m
        /\ resp[q].pc = "done" /\ resp[q].request_id = resp[r].request_id
        /\ resp[q].session = resp[r].session

\* C10: after a message call has returned 504 its request is in no in-flight
\* index.
C10_TimeoutRemovesInFlight ==
    \A m \in Msgs :
        (msg[m].pc = "done" /\ msg[m].status = 504)
            => \A s \in 1..Len(heap) : \A k \in RequestIds :
                   heap[s].in_flight_requests[k] # m

\* C11: once a message call has returned 504 with its request still in the
\* queue, no poll call returns that request.
C11_TimedOutStep ==
    \A m \in Msgs :
        (msg[m].pc = "done" /\ msg[m].status = 504 /\ msg[m].queued_at_timeout)
            => returned'[m] = returned[m]

C11_TimedOutNotReturned == [][C11_TimedOutStep]_vars

\* C12: a message call whose request is still in the queue when the call
\* ends has ended with 504; and every response call that came in after a
\* call had ended with 504 with its request still queued, for the id of that
\* request and on its session, is answered 200, and its payload is not the
\* body of the reply of any message call.
C12_LateResponseToNobody ==
    \A m \in Msgs :
        /\ (msg[m].pc = "done" /\ InQueue(m)) => msg[m].status = 504
        /\ \A r \in Resps :
              (/\ resp[r].pc = "done" /\ m \in resp[r].after
               /\ resp[r].request_id = msg[m].request_id
               /\ resp[r].session = msg[m].session)
                  => /\ resp[r].status = 200
                     /\ \A k \in Msgs : msg[k].body # PayloadOf(r)

\* C13: a poll call that starts while no other poll call is or was under way,
\* on a session with a queued request, returns 200 with a request that it
\* took from the queue.
C13_QueuedGoesToNextPoll ==
    (/\ poll[1].pc = "done" /\ poll[1].queued_at_start > 0
     /\ \A p \in Polls \ {1} : poll[p].pc = "idle")
        => /\ poll[1].status = 200
           /\ poll[1].request_id = msg[poll[1].took[1]].request_id
           /\ poll[1].request = msg[poll[1].took[1]].request_data

\* C14: a message call that starts while no session is registered ends at
\* once with 503 and changes neither the registry nor any session object nor
\* any promise; a call that ended with 503 has no request, in no queue and
\* in no in-flight index, also after a session has registered.
C14_NoSessionStep ==
    \A m \in Msgs :
        (msg[m].pc = "idle" /\ Registered = {} /\ msg'[m] # msg[m])
            => /\ msg'[m].pc = "done" /\ msg'[m].status = 503
               /\ msg'[m].request_id = None
               /\ sessions' = sessions /\ heap' = heap
               /\ response_promise' = response_promise

C14_Rejected ==
    \A m \in Msgs :
        (msg[m].pc = "done" /\ msg[m].status = 503)
            => /\ msg[m].request_id = None
               /\ ~InQueue(m)
               /\ ~response_promise[m].set
               /\ \A s \in 1..Len(heap) : \A k \in RequestIds :
                      heap[s].in_flight_requests[k] # m

C14_NoSessionIs503 == []C14_Rejected /\ [][C14_NoSessionStep]_vars

\* a call was rejected with 503, a session registered afterwards, and the
\* next message call was queued on it
C14_Witness ==
    \E m, k \in Msgs :
        /\ msg[m].pc = "done" /\ msg[m].status = 503
        /\ Registered # {}
        /\ msg[k].pc = "wait" /\ InQueue(k)

\* C15: a step that ends a call with 400 or 404 changes neither the registry
\* nor any session object nor any promise; and a call that ended with 400 or
\* 404 has enqueued, dequeued and removed nothing.
C15_RejectStep ==
    (\/ \E m \in Msgs : msg[m].pc # "done" /\ msg'[m].pc = "done" /\ msg'[m].status = 400
     \/ \E p \in Polls : poll[p].pc # "done" /\ poll'[p].pc = "done"
                             /\ poll'[p].status \in {400, 404}
     \/ \E r \in Resps : resp[r].pc # "done" /\ resp'[r].pc = "done"
                             /\ resp'[r].status \in {400, 404}
     \/ reg' # reg /\ reg'.status = 400)
        => /\ sessions' = sessions /\ heap' = heap
           /\ response_promise' = response_promise

C15_Rejected ==
    /\ \A m \in Msgs : (msg[m].pc = "done" /\ msg[m].status = 400)
          => (msg[m].request_id = None /\ ~InQueue(m) /\ ~response_promise[m].set)
    /\ \A p \in Polls : (poll[p].pc = "done" /\ poll[p].status \in {400, 404})
          => poll[p].took = <<>>
    /\ \A r \in Resps : (resp[r].pc = "done" /\ resp[r].status \in {400, 404})
          => resp[r].request = None
    /\ reg.status = 400 => reg.session_id = None

C15_RejectionChangesNothing == []C15_Rejected /\ [][C15_RejectStep]_vars

\* a session holds a request while a message call and a response call have
\* been rejected with 400 and the last register call too
C15_Witness ==
    /\ \E m \in Msgs : msg[m].pc = "done" /\ msg[m].status = 400
    /\ \E r \in Resps : resp[r].pc = "done" /\ resp[r].status = 400
    /\ reg.status = 400
    /\ \E s \in 1..Len(heap) :
          \/ heap[s].pending_requests # <<>>
          \/ \E k \in RequestIds : heap[s].in_flight_requests[k] # None

\* C16: after a registration that failed the agent is not running, has no
\* session id, runs no poll loop and has issued no poll call, and it stays
\* so; when the register call did not reach the relay, the relay has no
\* session.
C16_FailedStart ==
    agent.start \in {"down", "lost", "status", "nosid"}
        => /\ agent.pc = "failed"
           /\ ~agent.running_
           /\ agent.session_id_ = None
           /\ poll[1].pc = "idle"
           /\ agent.start = "down" => (heap = <<>> /\ Registered = {})

\* the register call did not reach the relay, and a message call made
\* afterwards was answered 503
C16_Witness ==
    /\ agent.pc = "failed" /\ agent.start = "down"
    /\ \E m \in Msgs : msg[m].pc = "done" /\ msg[m].status = 503

\* C17: while the agent runs, a poll reply with 204 takes the loop to its next
\* iteration with no sleep; no result or a status other than 200 and 204
\* starts a sleep of the retry delay, after which the loop goes to its next
\* iteration; an iteration of a running loop issues a poll with the session
\* id of the registration; only stop clears running_, and the loop ends only
\* when running_ is false.
C17_PollStep ==
    /\ (agent.pc = "polling" /\ agent'.pc # "polling")
          => /\ agent'.seen = 204 => agent'.pc = "poll_loop"
             /\ agent'.seen \notin {200, 204}
                   => (agent'.pc = "retry_sleep" /\ agent'.timer = RetryDelay)
    /\ (agent.pc = "poll_loop" /\ agent.running_ /\ agent'.pc # "poll_loop")
          => \/ /\ agent'.pc = "polling"
                /\ poll'[1].pc = "loop"
                /\ poll'[1].session = sessions[reg.session_id]
             \/ agent'.pc = "retry_sleep" /\ agent'.timer = RetryDelay /\ agent'.seen = 0
    /\ (agent.pc = "retry_sleep" /\ agent'.pc # "retry_sleep")
          => (agent.timer = 0 /\ agent'.pc = "poll_loop")
    /\ (agent.running_ /\ ~agent'.running_) => agent'.stop # agent.stop
    /\ (agent.pc # "exited" /\ agent'.pc = "exited") => ~agent.running_
    /\ agent.running_ => agent'.session_id_ = agent.session_id_

C17_PollLoopGoesOn ==
    /\ [][C17_PollStep]_vars
    /\ (agent.pc = "retry_sleep") ~> (agent.pc = "poll_loop")

\* the agent has slept after a poll without result and after a poll with
\* another status is polling again, still running
C17_Witness ==
    /\ agent.pc = "polling" /\ agent.running_
    /\ agent.seen = 500
    /\ poll[1].session = sessions[agent.session_id_]

\* C18: every request the agent received from poll and is done with has been
\* posted to the response endpoint.
C18_EveryRequestAnswered ==
    \A m \in Msgs :
        (agent.received[m] > 0 /\ agent.m # m) => agent.posts[m] > 0

\* C19: the agent posts at most one response for a request; a failed POST
\* is followed by the retry sleep and the next iteration of the poll loop;
\* and a request whose POST did not reach the relay stays in the in-flight
\* index, unresolved, its message call waiting or ended with 504.
C19_FailedPostStep ==
    /\ \A m \in Msgs : agent'.posts[m] <= 1
    /\ (agent.pc \in {"send_response", "responding"}
            /\ agent'.pc \notin {"send_response", "responding"})
          => /\ agent'.pc \in {"poll_loop", "retry_sleep"}
             /\ agent'.request_id = None /\ agent'.m = None

C19_Undelivered ==
    \A m \in agent.undelivered :
        /\ heap[msg[m].session].in_flight_requests[msg[m].request_id] = m
        /\ ~response_promise[m].set
        /\ msg[m].pc = "wait" \/ (msg[m].pc = "done" /\ msg[m].status = 504)

C19_AtMostOnePost == []C19_Undelivered /\ [][C19_FailedPostStep]_vars

\* C20: a poll call is begun only by a running loop; once stop has returned
\* is_running is false, and in background mode the poll loop has ended;
\* and after stop was requested the loop ends and stop returns.
C20_StopStep ==
    /\ (poll[1].pc = "idle" /\ poll'[1].pc # "idle") => agent.running_
    /\ (~agent.running_ /\ agent.pc = "poll_loop") => agent'.pc \in {"poll_loop", "exited"}
    /\ agent.stop # "none" => ~agent'.running_

C20_Stopped ==
    agent.stop = "returned"
        => /\ ~agent.running_
           /\ ~agent.blocking => agent.pc = "exited"

C20_StopEndsLoop ==
    /\ []C20_Stopped
    /\ [][C20_StopStep]_vars
    /\ (agent.stop # "none") ~> (agent.stop = "returned" /\ agent.pc = "exited")

\* stop was requested while a poll was under way on the relay; the poll ended,
\* the loop ended and stop has returned, in background mode
C20_Witness ==
    /\ agent.stop = "returned" /\ ~agent.blocking /\ agent.pc = "exited"
    /\ agent.seen = 204
    /\ \E m \in Msgs : msg[m].pc = "wait"

\* C21: a register call that succeeds returns an identifier that was not
\* registered, and every session registered before is registered after it,
\* under the same identifier.
C21_RegisterStep ==
    Len(heap') > Len(heap)
        => /\ reg'.session_id \notin Registered
           /\ \A id \in Registered : sessions'[id] = sessions[id]

C21_RegisterKeepsSessions == [][C21_RegisterStep]_vars

\* the places where request id k occurs: positions of the queues and entries
\* of the in-flight indexes of all session objects
Occurrences(k) ==
    {<<s, i>> \in (1..Len(heap)) \X (1..NMsg) :
        i <= Len(heap[s].pending_requests)
        /\ msg[heap[s].pending_requests[i]].request_id = k}
    \cup {<<s, 0>> : s \in {t \in 1..Len(heap) : heap[t].in_flight_requests[k] # None}}

\* C22: each request id occurs at most once in the queues and in-flight
\* indexes of all sessions together.
C22_RequestIdOnce ==
    \A k \in RequestIds : Cardinality(Occurrences(k)) <= 1

\* the requests in a queue
Queued(q) == {q[i] : i \in 1..Len(q)}

\* C23: in every step and for every session, a request leaves the queue only
\* together with all requests enqueued before it, the requests that stay keep
\* their order, and a new request stands behind all of them.
C23_FifoStep ==
    \A s \in 1..Len(heap) :
        LET q == heap[s].pending_requests
            r == heap'[s].pending_requests
        IN /\ \A i, j \in 1..Len(q) :
                  (i < j /\ q[j] \notin Queued(r)) => q[i] \notin Queued(r)
           /\ \A i, j \in 1..Len(r) :
                  i < j => /\ r[i] \notin Queued(q) => r[j] \notin Queued(q)
                           /\ (r[i] \in Queued(q) /\ r[j] \in Queued(q))
                                 => \E a, b \in 1..Len(q) :
                                       a < b /\ q[a] = r[i] /\ q[b] = r[j]

C23_DequeuedInOrder == [][C23_FifoStep]_vars

\* a poll that started with two requests in the queue has dequeued one, and
\* the one enqueued second is what the queue holds
C23_Witness ==
    \E p \in Polls :
        /\ poll[p].queued_at_start = 2
        /\ Len(poll[p].took) = 1
        /\ Len(heap[poll[p].session].pending_requests) = 1
        /\ heap[poll[p].session].pending_requests[1] # poll[p].took[1]

\* C24: a step that removes a request from an in-flight index also resolves
\* the waiter of that request, so that no state has the request out of the
\* index with its waiter unresolved.
C24_EraseStep ==
    \A s \in 1..Len(heap) : \A k \in RequestIds :
        LET m == heap[s].in_flight_requests[k]
        IN (m # None /\ heap'[s].in_flight_requests[k] = None)
              => response_promise'[m].set

C24_EraseAndResolveAtomic == [][C24_EraseStep]_vars

\* the handler threads
Threads == ({"message"} \X Msgs) \cup ({"poll"} \X Polls) \cup ({"response"} \X Resps)
               \cup {<<"register", 1>>}

\* C25: a poll handler that sleeps in its wait loop or has returned, a message
\* handler that waits for its promise or has returned, and a response handler
\* that has returned own no lock; no handler owns two locks; and the owner of
\* a lock can take the step that releases it, so no handler that owns a lock
\* waits for another handler.
C25_NoLockHeldWhileWaiting ==
    /\ \A p \in Polls : poll[p].pc \in {"sleep", "done"} => Held(<<"poll", p>>) = {}
    /\ \A m \in Msgs : msg[m].pc \in {"wait", "done"} => Held(<<"message", m>>) = {}
    /\ \A r \in Resps : resp[r].pc \in {"resolve", "done"} => Held(<<"response", r>>) = {}
    /\ \A t \in Threads : Cardinality(Held(t)) <= 1
    /\ \A L \in Locks : mutex[L] # Free => ENABLED (LockNext /\ mutex'[L] = Free)

\* the poll handler sleeps in its wait loop, a message handler waits for its
\* promise, another message handler is inside the block that enqueues, and a
\* response call has returned 404 from inside the lookup block
C25_Witness ==
    /\ poll[1].pc = "sleep"
    /\ msg[1].pc = "wait"
    /\ Held(<<"message", 2>>) = {1}
    /\ resp[1].pc = "done" /\ resp[1].status = 404

\* C26: at most one invocation of poll_loop is active at any time.
C26_OnePollLoop == agent.loops <= 1

\* C27 as stated: while the session that received a request stays registered,
\* no other session receives a request.
C27_OnlyThatSession ==
    \A m, k \in Msgs :
        (/\ msg[m].request_id # None /\ msg[k].request_id # None
         /\ \E id \in Registered : sessions[id] = msg[m].session)
            => msg[k].session = msg[m].session

\* C27, amended: a message call that finds a session picks the one registered
\* under the smallest identifier at that moment, and when it enqueues its
\* request it appends it to the queue of that session and changes no other
\* session.
C27_RouteStep ==
    \A m \in Msgs :
        /\ (msg[m].pc = "idle" /\ msg'[m].pc = "route")
              => \E id \in Registered :
                    /\ \A other \in Registered : id <= other
                    /\ msg'[m].session = sessions[id]
        /\ (msg[m].pc = "route" /\ msg'[m].pc = "wait")
              => /\ msg'[m].session = msg[m].session
                 /\ heap' = [heap EXCEPT ![msg[m].session].pending_requests = Append(@, m)]

C27_FirstSessionAtLookup == [][C27_RouteStep]_vars

\* two sessions are registered and each holds a request: the one registered
\* first under the larger identifier, and the one that registered later
\* under a smaller identifier
C27_Witness ==
    \E m, k \in Msgs :
        /\ msg[m].request_id # None /\ msg[k].request_id # None
        /\ msg[m].session = 1 /\ msg[k].session = 2
        /\ \E i, j \in Registered : i > j /\ sessions[i] = 1 /\ sessions[j] = 2

TypeOK ==
    /\ \A m \in Msgs : msg[m].pc \in {"idle", "route", "wait", "done"}
    /\ \A p \in Polls : poll[p].pc \in {"idle", "loop", "sleep", "final", "done"}
    /\ \A r \in Resps : resp[r].pc \in {"idle", "find", "resolve", "done"}
====
